---- MODULE Spec2Model ----
(***************************************************************************)
(* A model of ez_al, a thin wrapper over an OpenAL binding (allen):        *)
(*   - EzAl: the handle owning the native device and rendering context,    *)
(*     and the listener of that context;                                   *)
(*   - SoundAsset: a WAV or MP3 file decoded into one or two native        *)
(*     buffers (the full-channel buffer and, for stereo, a mono buffer);   *)
(*   - SoundSource: a native emitter bound to one buffer of an asset, of   *)
(*     type Simple or Positional.                                          *)
(* The native layer is a black box: every native call that can return an   *)
(* error either takes effect or is rejected without effect, and which of   *)
(* the two happens is chosen by the environment (make_current returns      *)
(* nothing to the caller and takes effect).  f32 parameters are modelled   *)
(* by integers (gains in hundredths).                                      *)
(***************************************************************************)
EXTENDS Integers, Sequences, FiniteSets, TLC

VARIABLES
    handles,      \* the live EzAl values (each owns device h and context h)
    alDevices,    \* native devices that are open
    alContexts,   \* native contexts that exist
    alCurrent,    \* the context that is current for the process, 0 if none
    listener,     \* per live context: the native listener state
    releaseLog,   \* the native release events so far, in order
    nextId,       \* the id the next opened device (and its context) gets
    alBuffers,    \* native buffers: id -> [channels, sample_rate, data]
    asset,        \* the SoundAsset the caller holds, or NoAsset
    assetSource,  \* the file the held asset was decoded from (history)
    source,       \* the SoundSource the caller holds, or NoSource
    legacy,       \* the global-context variant: its statics DEVICE and CONTEXT
    ret           \* what the last call was and what it returned

vars == <<handles, alDevices, alContexts, alCurrent, listener, releaseLog,
          nextId, alBuffers, asset, assetSource, source, legacy, ret>>

ctxVars == <<handles, alDevices, alContexts, alCurrent, listener, releaseLog, nextId,
            legacy>>
assetVars == <<alBuffers, asset, assetSource>>

----------------------------------------------------------------------------
(* Bounds *)

\* EzAl::new is called at most this many times with a device that opens
MaxOpens == 3

----------------------------------------------------------------------------
(* Return values *)

\* The shape of ret; every call fills in the fields it uses.
\*   res: "Ok", "Err" or "Panic" (an unwrap() of a native error)
\*   calls: the native calls the call made; allocs: the native buffers it allocated
NoRet ==
    [op |-> "none", res |-> "None", err |-> "", val |-> 0, arg |-> 0,
     kind |-> "", calls |-> 0, allocs |-> 0, accepted |-> FALSE,
     file |-> "", n_channels |-> 0]

\* No asset, file or source.  Option<Buffer>: 0 is None.  context: the
\* context of the handle a value was created through.
NoAsset == [buffer |-> 0, mono_buffer |-> 0, context |-> 0]
NoFile == [fmt |-> "none"]
NoSource == [source_type |-> "None"]

Positions == {<<0, 0, 0>>, <<1, 2, 3>>}
Orientations == {<<<<0, 0, -1>>, <<0, 1, 0>>>>, <<<<1, 0, 0>>, <<0, 0, 1>>>>}

\* OpenAL's listener defaults
DefaultListener ==
    [position |-> <<0, 0, 0>>, orientation |-> <<<<0, 0, -1>>, <<0, 1, 0>>>>]

\* The global-context variant: no SoundSource is held.
NoLegacySource ==
    [emitter_type |-> "None", position |-> <<0, 0, 0>>, max_distance |-> 0,
     looping |-> FALSE]

\* The statics of the global-context variant before init(): DEVICE and CONTEXT
\* are None (0).  opened counts the devices init() opened; aborted: a call
\* panicked, which ends the (single-threaded) program.  position,
\* orientation: the listener of the context in the slot (the defaults when the
\* slot is empty).  held: the contexts the caller got from take_context() and
\* still has, each with its listener; asset, source: the WavAsset and the
\* SoundSource the caller holds.
LegacyStart ==
    [DEVICE |-> 0, CONTEXT |-> 0, opened |-> 0, aborted |-> FALSE,
     position |-> DefaultListener.position,
     orientation |-> DefaultListener.orientation,
     held |-> [c \in {} |-> DefaultListener], asset |-> FALSE,
     source |-> NoLegacySource]

----------------------------------------------------------------------------
(* EzAl: device and context *)

\* struct EzAl { _device, context }: Rust drops the fields of a value in
\* declaration order.
EzAl_fields == <<"_device", "context">>

\* The values other than the handle that were created in context c: in a
\* binding whose buffers and sources keep their context, they keep it alive.
KeptBy(c) ==
    {v \in {"asset", "source"} :
        IF v = "asset" THEN asset # NoAsset /\ asset.context = c
        ELSE source # NoSource /\ source.context = c}

\* The native release events of dropping handle h, in order.  The handle
\* gives up its fields in declaration order; what the native layer then does
\* is the binding's: when its Context keeps a reference to its Device
\* (context_keeps_device), the device stays open until the context is gone
\* and is closed after it; when a buffer or source still keeps the context
\* (context_is_kept), the context is not destroyed by this drop.
EzAl_drop_events(h, context_keeps_device, context_is_kept) ==
    LET released == IF context_is_kept
                    THEN IF context_keeps_device THEN <<>> ELSE <<"_device">>
                    ELSE IF context_keeps_device
                    THEN <<"context", "_device">>
                    ELSE EzAl_fields
    IN [i \in 1..Len(released) |->
           [kind |-> IF released[i] = "_device" THEN "device" ELSE "context",
            id |-> h]]

\* The native releases of dropping the last buffer or source that kept
\* context c alive after its handle was dropped (others: another value still
\* keeps it): the context, and after it the device if the context kept it.
LastKeeperEvents(c, others) ==
    IF c \in alContexts /\ c \notin handles /\ ~others
    THEN <<[kind |-> "context", id |-> c]>> \o
         (IF c \in alDevices THEN <<[kind |-> "device", id |-> c]>> ELSE <<>>)
    ELSE <<>>

\* The native layer after the release events.
NativeRelease(events) ==
    LET gone(kind) == {events[i].id : i \in {j \in DOMAIN events : events[j].kind = kind}}
    IN /\ releaseLog' = releaseLog \o events
       /\ alDevices' = alDevices \ gone("device")
       /\ alContexts' = alContexts \ gone("context")
       /\ alCurrent' = IF alCurrent \in gone("context") THEN 0 ELSE alCurrent
       /\ listener' = [c \in alContexts \ gone("context") |-> listener[c]]

\* EzAl::new() without context.make_current().
EzAl_new_not_current(device_ok, context_ok) ==
    IF ~device_ok
    THEN [res |-> "Err", err |-> "CurrentDeviceGettingError", calls |-> 1,
          device |-> FALSE, context |-> FALSE, current |-> FALSE]
    ELSE IF ~context_ok
    THEN [res |-> "Err", err |-> "ContextCreationError", calls |-> 2,
          device |-> TRUE, context |-> FALSE, current |-> FALSE]
    ELSE [res |-> "Ok", err |-> "", calls |-> 3,
          device |-> TRUE, context |-> TRUE, current |-> FALSE]

\* EzAl::new().  device_ok: Device::open(None) is Some; context_ok:
\* device.create_context() is Ok.  The result, and what the call did: whether
\* it opened a device, created a context, made the context current.
EzAl_new(device_ok, context_ok) ==
    IF ~device_ok
    THEN [res |-> "Err", err |-> "CurrentDeviceGettingError", calls |-> 1,
          device |-> FALSE, context |-> FALSE, current |-> FALSE]
    ELSE IF ~context_ok
    THEN [res |-> "Err", err |-> "ContextCreationError", calls |-> 2,
          device |-> TRUE, context |-> FALSE, current |-> FALSE]
    ELSE [res |-> "Ok", err |-> "", calls |-> 3,
          device |-> TRUE, context |-> TRUE, current |-> TRUE]

\* let al = EzAl::new(): the caller keeps an Ok handle; the device of a failed
\* call is dropped (closed) on return.
Do_EzAl_new ==
    /\ nextId <= MaxOpens
    /\ \E device_ok, context_ok \in BOOLEAN :
          LET r == EzAl_new(device_ok, context_ok) IN
          /\ ret' = [NoRet EXCEPT !.op = "EzAl_new", !.res = r.res, !.err = r.err,
                        !.calls = r.calls, !.arg = <<device_ok, context_ok>>,
                        !.val = IF r.device THEN nextId ELSE 0]
          /\ nextId' = IF r.device THEN nextId + 1 ELSE nextId
          /\ releaseLog' = IF r.device /\ ~r.context
                           THEN Append(releaseLog, [kind |-> "device", id |-> nextId])
                           ELSE releaseLog
          /\ alDevices' = IF r.context THEN alDevices \cup {nextId} ELSE alDevices
          /\ alContexts' = IF r.context THEN alContexts \cup {nextId} ELSE alContexts
          /\ handles' = IF r.res = "Ok" THEN handles \cup {nextId} ELSE handles
          /\ alCurrent' = IF r.current THEN nextId ELSE alCurrent
          /\ listener' = IF r.context
                         THEN [c \in alContexts \cup {nextId} |->
                                  IF c = nextId THEN DefaultListener ELSE listener[c]]
                         ELSE listener
    /\ UNCHANGED <<assetVars, source, legacy>>

\* Dropping an EzAl value.
Drop_EzAl(h) ==
    /\ h \in handles
    /\ handles' = handles \ {h}
    /\ \E context_keeps_device \in BOOLEAN,
          context_is_kept \in {FALSE} \cup {KeptBy(h) # {}} :
          LET events == EzAl_drop_events(h, context_keeps_device, context_is_kept) IN
          /\ NativeRelease(events)
          /\ ret' = [NoRet EXCEPT !.op = "Drop_EzAl", !.res = "Ok", !.val = h,
                        !.calls = Len(events)]
    /\ UNCHANGED <<nextId, assetVars, source, legacy>>

\* set_listener_position(al, position); ok: the native call is accepted.
set_listener_position(al, position, ok) ==
    /\ al \in handles
    /\ listener' = IF ok THEN [listener EXCEPT ![al].position = position] ELSE listener
    /\ ret' = [NoRet EXCEPT !.op = "set_listener_position", !.res = "Ok",
                  !.val = al, !.arg = position, !.calls = 1, !.accepted = ok]
    /\ UNCHANGED <<handles, alDevices, alContexts, alCurrent, releaseLog, nextId,
                   assetVars, source, legacy>>

\* set_listener_orientation(al, at, up), orientation = <<at, up>>.
set_listener_orientation(al, orientation, ok) ==
    /\ al \in handles
    /\ listener' = IF ok THEN [listener EXCEPT ![al].orientation = orientation]
                         ELSE listener
    /\ ret' = [NoRet EXCEPT !.op = "set_listener_orientation", !.res = "Ok",
                  !.val = al, !.arg = orientation, !.calls = 1, !.accepted = ok]
    /\ UNCHANGED <<handles, alDevices, alContexts, alCurrent, releaseLog, nextId,
                   assetVars, source, legacy>>

\* set_listener_transform(al, position, at, up): the two setters in turn.
set_listener_transform(al, position, orientation, ok_position, ok_orientation) ==
    /\ al \in handles
    /\ listener' =
          [listener EXCEPT
              ![al] = [position |-> IF ok_position THEN position ELSE @.position,
                       orientation |-> IF ok_orientation THEN orientation
                                       ELSE @.orientation]]
    /\ ret' = [NoRet EXCEPT !.op = "set_listener_transform", !.res = "Ok",
                  !.val = al, !.arg = <<position, orientation>>, !.calls = 2,
                  !.accepted = ok_position /\ ok_orientation]
    /\ UNCHANGED <<handles, alDevices, alContexts, alCurrent, releaseLog, nextId,
                   assetVars, source, legacy>>


----------------------------------------------------------------------------
(* SoundAsset: decoding a file into native buffers *)

\* a decoded file has at most this many PCM frames (WAV) or decoder frames (MP3)
MaxFrames == 2

\* init() of the global-context variant opens at most this many devices
MaxInits == 2

\* at most this many buffers that no asset owns any more stay in the native
\* layer
MaxLeaks == 1

\* 16-bit samples; two values suffice to tell the channels of a frame apart
SampleVals == {0, 2}
Rates == {44100, 48000}

\* The sample values of the files with n channels: no decode reads a sample of
\* a file it rejects for its channel count, so those are all 0.
ChannelVals(n) == IF n \in {1, 2} THEN SampleVals ELSE {0}

\* A native buffer that was created and given no data yet.
EmptyBuffer == [channels |-> "None", sample_rate |-> 0, data |-> <<>>]

\* The id context.new_buffer() gives the new buffer.
FreshBuffer(bufs) ==
    CHOOSE b \in 1..(Cardinality(DOMAIN bufs) + 1) :
        /\ b \notin DOMAIN bufs
        /\ \A c \in 1..(b - 1) : c \in DOMAIN bufs

PutBuffer(bufs, id, buf) ==
    [b \in DOMAIN bufs \cup {id} |-> IF b = id THEN buf ELSE bufs[b]]

\* WAV files.  status "unopenable": Wav::from_path fails (missing file, bad
\* header); "unreadable": the header parses and wav.read() fails; "ok": the
\* frames are the PCM frames of the file, one sample per channel each.
WavFiles ==
    {[fmt |-> "wav", status |-> st, n_channels |-> 1, sample_rate |-> 44100,
      frames |-> <<>>] : st \in {"unopenable", "unreadable"}}
    \cup
    UNION {UNION {{[fmt |-> "wav", status |-> "ok", n_channels |-> n,
                    sample_rate |-> r, frames |-> f] :
                      f \in [1..k -> [1..n -> ChannelVals(n)]], r \in Rates}
                  : k \in 0..MaxFrames}
           : n \in 0..3}

RECURSIVE Flatten(_)
Flatten(frames) ==
    IF frames = <<>> THEN <<>> ELSE Head(frames) \o Flatten(Tail(frames))

\* wav.read(): the samples of the file, interleaved.
WavRead(file) == Flatten(file.frames)

\* wav.channels(): the samples of each channel, channel by channel.
WavChannels(file) ==
    [c \in 1..file.n_channels |-> [i \in 1..Len(file.frames) |-> file.frames[i][c]]]

\* The outcomes of the native calls of a decode: the call fails at the first
\* native call that fails, so at most one of them is FALSE.
BufferCalls == {"new_buffer", "data", "new_mono_buffer", "mono_data"}
DecodeOutcomes ==
    {[c \in BufferCalls |-> c # failing] : failing \in BufferCalls \cup {"none"}}

\* SoundAsset::from_wav(al, path) with the buffers bufs existing: the result,
\* the buffers after the call (a buffer of a failing call is dropped, which
\* deletes it), and the buffers the call allocated.
from_wav(al, bufs, file, nat) ==
    LET Fail(e, allocated, called) ==
            [res |-> "Err", err |-> e, allocs |-> allocated, calls |-> called,
             bufs |-> bufs, asset |-> NoAsset]
        buffer == FreshBuffer(bufs)
        mono_buffer == FreshBuffer(PutBuffer(bufs, buffer, EmptyBuffer))
        samples == WavRead(file)
        channels == WavChannels(file)
    IN
    IF file.status = "unopenable" THEN Fail("SoundAssetLoadingError", 0, 0)
    ELSE IF file.status = "unreadable" THEN Fail("SoundAssetLoadingError", 0, 0)
    ELSE IF ~nat["new_buffer"] THEN Fail("BufferCreationFailedError", 0, 1)
    ELSE IF file.n_channels = 1 THEN
        IF ~nat["data"] THEN Fail("BufferCreationFailedError", 1, 2)
        ELSE [res |-> "Ok", err |-> "", allocs |-> 1, calls |-> 2,
              bufs |-> PutBuffer(bufs, buffer,
                          [channels |-> "Mono", sample_rate |-> file.sample_rate,
                           data |-> samples]),
              asset |-> [buffer |-> buffer, mono_buffer |-> 0, context |-> al]]
    ELSE IF file.n_channels = 2 THEN
        IF ~nat["new_mono_buffer"] THEN Fail("BufferCreationFailedError", 1, 2)
        ELSE IF Len(channels) > 0 /\ ~nat["mono_data"]
             THEN Fail("BufferCreationFailedError", 2, 3)
        ELSE IF ~nat["data"] THEN Fail("BufferCreationFailedError", 2, 4)
        ELSE [res |-> "Ok", err |-> "", allocs |-> 2, calls |-> 4,
              bufs |-> PutBuffer(
                          PutBuffer(bufs, buffer,
                              [channels |-> "Stereo", sample_rate |-> file.sample_rate,
                               data |-> samples]),
                          mono_buffer,
                          \* for channel in channels { data(channel); break }
                          IF Len(channels) > 0
                          THEN [channels |-> "Mono", sample_rate |-> file.sample_rate,
                                data |-> channels[1]]
                          ELSE EmptyBuffer),
              asset |-> [buffer |-> buffer, mono_buffer |-> mono_buffer,
                        context |-> al]]
    ELSE Fail("TooMuchChannels", 1, 1)

\* MP3 files.  status "unopenable": File::open fails.  Otherwise the decoder
\* yields the frames and then an error: tail "Eof" at the end of the data,
\* "Corrupt" where the data cannot be decoded.  A frame carries its channel
\* count, its sample rate and its samples, interleaved.
Mp3Frames ==
    UNION {{[channels |-> n, sample_rate |-> r, data |-> d] :
               d \in [1..n -> ChannelVals(n)], r \in Rates}
           : n \in 1..3}

Mp3Files ==
    {[fmt |-> "mp3", status |-> "unopenable", frames |-> <<>>, tail |-> "Eof"]}
    \cup
    UNION {{[fmt |-> "mp3", status |-> "ok", frames |-> f, tail |-> t] :
               f \in [1..k -> Mp3Frames], t \in {"Eof", "Corrupt"}}
           : k \in 0..MaxFrames}

\* mp3_decode_loop taking every frame for stereo (>= 1 for > 1).
RECURSIVE mp3_decode_loop_ge(_, _, _)
mp3_decode_loop_ge(frames, i, acc) ==
    IF i > Len(frames) THEN acc
    ELSE IF frames[i].channels > 2 THEN [acc EXCEPT !.err = "TooMuchChannels"]
    ELSE mp3_decode_loop_ge(frames, i + 1,
            [samples |-> acc.samples \o frames[i].data,
             sample_rate |-> frames[i].sample_rate,
             channels |-> IF frames[i].channels >= 1 THEN "Stereo" ELSE acc.channels,
             err |-> ""])

\* while let Ok(frame) = decoder.next_frame() { ... }, from frame i on.
RECURSIVE mp3_decode_loop(_, _, _)
mp3_decode_loop(frames, i, acc) ==
    IF i > Len(frames) THEN acc
    ELSE IF frames[i].channels > 2 THEN [acc EXCEPT !.err = "TooMuchChannels"]
    ELSE mp3_decode_loop(frames, i + 1,
            [samples |-> acc.samples \o frames[i].data,
             sample_rate |-> frames[i].sample_rate,
             channels |-> IF frames[i].channels > 1 THEN "Stereo" ELSE acc.channels,
             err |-> ""])

\* step_by_2 starting at the second sample (skip(1).step_by(2)).
step_by_2_skip(samples) ==
    [i \in 1..(Len(samples) \div 2) |-> samples[2 * i]]

\* samples.into_iter().step_by(2).collect()
step_by_2(samples) ==
    [i \in 1..((Len(samples) + 1) \div 2) |-> samples[2 * i - 1]]

\* SoundAsset::from_mp3(al, path), as from_wav.
from_mp3(al, bufs, file, nat) ==
    LET Fail(e, allocated, called) ==
            [res |-> "Err", err |-> e, allocs |-> allocated, calls |-> called,
             bufs |-> bufs, asset |-> NoAsset]
        decoded == mp3_decode_loop(file.frames, 1,
                      [samples |-> <<>>, sample_rate |-> 44100,
                       channels |-> "Mono", err |-> ""])
        buffer == FreshBuffer(bufs)
        mono_buffer == FreshBuffer(PutBuffer(bufs, buffer, EmptyBuffer))
        primary == [channels |-> decoded.channels,
                    sample_rate |-> decoded.sample_rate, data |-> decoded.samples]
    IN
    IF file.status = "unopenable" THEN Fail("FsError", 0, 0)
    ELSE IF decoded.err # "" THEN Fail(decoded.err, 0, 0)
    ELSE IF ~nat["new_buffer"] THEN Fail("BufferCreationFailedError", 0, 1)
    ELSE IF decoded.channels = "Mono" THEN
        IF ~nat["data"] THEN Fail("BufferCreationFailedError", 1, 2)
        ELSE [res |-> "Ok", err |-> "", allocs |-> 1, calls |-> 2,
              bufs |-> PutBuffer(bufs, buffer, primary),
              asset |-> [buffer |-> buffer, mono_buffer |-> 0, context |-> al]]
    ELSE
        IF ~nat["data"] THEN Fail("BufferCreationFailedError", 1, 2)
        ELSE IF ~nat["new_mono_buffer"] THEN Fail("BufferCreationFailedError", 1, 3)
        ELSE IF ~nat["mono_data"] THEN Fail("BufferCreationFailedError", 2, 4)
        ELSE [res |-> "Ok", err |-> "", allocs |-> 2, calls |-> 4,
              bufs |-> PutBuffer(
                          PutBuffer(bufs, buffer, primary),
                          mono_buffer,
                          [channels |-> "Mono", sample_rate |-> decoded.sample_rate,
                           data |-> step_by_2(decoded.samples)]),
              asset |-> [buffer |-> buffer, mono_buffer |-> mono_buffer,
                        context |-> al]]

\* What a decode call did, as ret records it.
DecodeRet(op, file, r) ==
    [NoRet EXCEPT !.op = op, !.res = r.res, !.err = r.err, !.allocs = r.allocs,
                  !.calls = r.calls,
                  !.file = IF file.fmt = "mp3" /\ file.status = "ok" /\ file.tail = "Corrupt"
                           THEN "undecodable" ELSE file.status,
                  !.n_channels =
                      IF file.fmt = "wav" THEN file.n_channels
                      ELSE IF \E i \in 1..Len(file.frames) : file.frames[i].channels > 2
                           THEN 3
                      ELSE IF \E i \in 1..Len(file.frames) : file.frames[i].channels = 2
                           THEN 2 ELSE 1]

\* let asset = SoundAsset::from_wav(&al, path), for a path to one of files:
\* the caller keeps an Ok asset.
Load_from_wav(files) ==
    /\ asset = NoAsset
    /\ \E al \in handles, file \in files, nat \in DecodeOutcomes :
          LET r == from_wav(al, alBuffers, file, nat) IN
          /\ alBuffers' = r.bufs
          /\ asset' = r.asset
          /\ assetSource' = IF r.res = "Ok" THEN file ELSE NoFile
          /\ ret' = [DecodeRet("from_wav", file, r) EXCEPT !.val = al]
    /\ UNCHANGED <<ctxVars, source>>

SoundAsset_from_wav == Load_from_wav(WavFiles)

SoundAsset_from_mp3 ==
    /\ asset = NoAsset
    /\ \E al \in handles, file \in Mp3Files, nat \in DecodeOutcomes :
          LET r == from_mp3(al, alBuffers, file, nat) IN
          /\ alBuffers' = r.bufs
          /\ asset' = r.asset
          /\ assetSource' = IF r.res = "Ok" THEN file ELSE NoFile
          /\ ret' = [DecodeRet("from_mp3", file, r) EXCEPT !.val = al]
    /\ UNCHANGED <<ctxVars, source>>

\* Dropping the asset deletes its buffers.  A SoundSource holds no borrow of
\* the asset, so the asset can be dropped while a source made from it lives.
\* The native layer may refuse to delete a buffer that is attached to a
\* source (refused); Buffer's drop goes on and the buffer stays.  When the
\* asset's buffers were the last to keep a context whose handle is gone, the
\* context is released here.
Drop_SoundAsset ==
    /\ asset # NoAsset
    /\ LET attached == IF source = NoSource THEN {}
                       ELSE ({asset.buffer, asset.mono_buffer} \cap {source.buffer}) \ {0}
           leaked == DOMAIN alBuffers \ {asset.buffer, asset.mono_buffer}
       IN \E refused \in {r \in SUBSET attached :
                              Cardinality(leaked \cup r) <= MaxLeaks} :
             alBuffers' = [b \in DOMAIN alBuffers \
                                    ({asset.buffer, asset.mono_buffer} \ refused) |->
                              alBuffers[b]]
    /\ NativeRelease(LastKeeperEvents(asset.context, "source" \in KeptBy(asset.context)))
    /\ asset' = NoAsset
    /\ assetSource' = NoFile
    /\ ret' = [NoRet EXCEPT !.op = "Drop_SoundAsset", !.res = "Ok"]
    /\ UNCHANGED <<handles, nextId, legacy, source>>

\* One handle is open, as after a successful EzAl::new().
InitOpened ==
    /\ handles = {1}
    /\ alDevices = {1}
    /\ alContexts = {1}
    /\ alCurrent = 1
    /\ listener = [c \in {1} |-> DefaultListener]
    /\ releaseLog = <<>>
    /\ nextId = 2
    /\ legacy = LegacyStart

InitDecode ==
    /\ InitOpened
    /\ alBuffers = [b \in {} |-> EmptyBuffer]
    /\ asset = NoAsset
    /\ assetSource = NoFile
    /\ source = NoSource
    /\ ret = NoRet

NextDecode ==
    \/ SoundAsset_from_wav
    \/ SoundAsset_from_mp3
    \/ Drop_SoundAsset

\* Decoding files into assets and dropping them, with one handle open.
SpecDecode == InitDecode /\ [][NextDecode]_vars

----------------------------------------------------------------------------
(* SoundSource: a native emitter bound to a buffer of an asset *)

Distances == {0, 30}
Volumes == {0, 25, 100}
SoundSourceType == {"Simple", "Positional"}

\* A native source as context.new_source() returns it (OpenAL's defaults; the
\* default max distance is the largest float).
NewSource(al, source_type) ==
    [source_type |-> source_type, context |-> al, buffer |-> 0, relative |-> FALSE,
     position |-> <<0, 0, 0>>, max_distance |-> 1000000,
     reference_distance |-> 1, rolloff_factor |-> 1, min_gain |-> 0,
     gain |-> 100, max_gain |-> 100, looping |-> FALSE, playing |-> FALSE]

SourceCalls == {"new_source", "set_relative", "set_buffer",
                "set_reference_distance", "set_rolloff_factor", "set_min_gain"}
NewOutcomes == [SourceCalls -> BOOLEAN]

\* The buffer SoundSource::new binds: the match on source_type and on
\* asset.mono_buffer.
buffer_to_bind(a, source_type) ==
    IF source_type = "Simple" THEN a.buffer
    ELSE IF a.mono_buffer # 0 THEN a.mono_buffer
    ELSE a.buffer

\* SoundSource::new(al, asset, source_type); nat: which native calls are accepted.
SoundSource_new(al, a, source_type, nat) ==
    LET created == NewSource(al, source_type)
        bound(src) ==
            IF nat["set_buffer"]
            THEN [src EXCEPT !.buffer = buffer_to_bind(a, source_type)] ELSE src
    IN
    IF ~nat["new_source"]
    THEN [res |-> "Err", err |-> "SourceCreationFailedError", source |-> NoSource,
          calls |-> 1]
    ELSE IF source_type = "Simple" THEN
        IF ~nat["set_relative"]
        THEN \* source.set_relative(true).unwrap()
             [res |-> "Panic", err |-> "", source |-> NoSource, calls |-> 2]
        ELSE [res |-> "Ok", err |-> "", calls |-> 3,
              source |-> bound([created EXCEPT !.relative = TRUE])]
    ELSE [res |-> "Ok", err |-> "", calls |-> 5,
          source |-> bound(
              [created EXCEPT
                  !.reference_distance =
                      IF nat["set_reference_distance"] THEN 0 ELSE @,
                  !.rolloff_factor = IF nat["set_rolloff_factor"] THEN 1 ELSE @,
                  !.min_gain = IF nat["set_min_gain"] THEN 0 ELSE @])]

\* source.set_looping(should_loop)
set_looping(src, should_loop, ok) ==
    [res |-> "Ok", err |-> "", val |-> 0, calls |-> 1,
     source |-> IF ok THEN [src EXCEPT !.looping = should_loop] ELSE src]

\* source.is_looping(): self.source.is_looping().unwrap()
is_looping(src, ok) ==
    IF ok THEN [res |-> "Ok", err |-> "", val |-> IF src.looping THEN 1 ELSE 0,
                calls |-> 1, source |-> src]
    ELSE [res |-> "Panic", err |-> "", val |-> 0, calls |-> 1, source |-> src]

\* source.play_sound()
play_sound(src, ok) ==
    [res |-> "Ok", err |-> "", val |-> 0, calls |-> 1,
     source |-> IF ok THEN [src EXCEPT !.playing = TRUE] ELSE src]

\* set_max_distance without the match on source_type.
set_max_distance_unchecked(src, distance, ok) ==
    [res |-> "Ok", err |-> "", val |-> 0, calls |-> 1,
     source |-> IF ok THEN [src EXCEPT !.max_distance = distance] ELSE src]

\* source.set_max_distance(distance)
set_max_distance(src, distance, ok) ==
    IF src.source_type = "Simple"
    THEN [res |-> "Err", err |-> "WrongSoundSourceType", val |-> 0, calls |-> 0,
          source |-> src]
    ELSE [res |-> "Ok", err |-> "", val |-> 0, calls |-> 1,
          source |-> IF ok THEN [src EXCEPT !.max_distance = distance] ELSE src]

\* source.get_max_distance(): Ok(self.source.max_distance().unwrap())
get_max_distance(src, ok) ==
    IF src.source_type = "Simple"
    THEN [res |-> "Err", err |-> "WrongSoundSourceType", val |-> 0, calls |-> 0,
          source |-> src]
    ELSE IF ok THEN [res |-> "Ok", err |-> "", val |-> src.max_distance, calls |-> 1,
                     source |-> src]
    ELSE [res |-> "Panic", err |-> "", val |-> 0, calls |-> 1, source |-> src]

\* update discarding the native result, as the other setters do.
update_swallowing(src, sound_position, ok) ==
    [res |-> "Ok", err |-> "", val |-> 0, calls |-> 1,
     source |-> IF ok THEN [src EXCEPT !.position = sound_position] ELSE src]

\* source.update(sound_position): there is no match on source_type.
update(src, sound_position, ok) ==
    IF ok THEN [res |-> "Ok", err |-> "", val |-> 0, calls |-> 1,
                source |-> [src EXCEPT !.position = sound_position]]
    ELSE [res |-> "Err", err |-> "SettingPositionError", val |-> 0, calls |-> 1,
          source |-> src]

\* set_volume without the set_max_gain call.
set_volume_gain_only(src, volume, ok_gain, ok_max_gain) ==
    [res |-> "Ok", err |-> "", val |-> 0, calls |-> 1,
     source |-> [src EXCEPT !.gain = IF ok_gain THEN volume ELSE @]]

\* source.set_volume(volume): set_gain, then set_max_gain.
set_volume(src, volume, ok_gain, ok_max_gain) ==
    [res |-> "Ok", err |-> "", val |-> 0, calls |-> 2,
     source |-> [src EXCEPT !.gain = IF ok_gain THEN volume ELSE @,
                            !.max_gain = IF ok_max_gain THEN volume ELSE @]]

\* source.volume(): self.source.gain()
volume(src, ok) ==
    IF ok THEN [res |-> "Ok", err |-> "", val |-> src.gain, calls |-> 1, source |-> src]
    ELSE [res |-> "Err", err |-> "AllenError", val |-> 0, calls |-> 1, source |-> src]

\* What a call on the source did, as ret records it.
SourceRet(op, arg, accepted, r) ==
    [NoRet EXCEPT !.op = op, !.res = r.res, !.err = r.err, !.val = r.val,
                  !.arg = arg, !.kind = source.source_type, !.calls = r.calls,
                  !.accepted = accepted]

\* A call of a method of the held source: the source and ret after it.
Call(op, arg, accepted, r) ==
    /\ source' = r.source
    /\ ret' = SourceRet(op, arg, accepted, r)
    /\ UNCHANGED <<ctxVars, assetVars>>

Do_SoundSource_new ==
    /\ source = NoSource
    /\ asset # NoAsset
    /\ \E al \in handles, source_type \in SoundSourceType, nat \in NewOutcomes :
          LET r == SoundSource_new(al, asset, source_type, nat) IN
          /\ source' = r.source
          /\ ret' = [NoRet EXCEPT !.op = "SoundSource_new", !.res = r.res,
                        !.err = r.err, !.kind = source_type, !.calls = r.calls,
                        !.accepted = nat["set_buffer"], !.val = al]
    /\ UNCHANGED <<ctxVars, assetVars>>

Do_set_looping ==
    /\ source # NoSource
    /\ \E should_loop, ok \in BOOLEAN :
          Call("set_looping", IF should_loop THEN 1 ELSE 0, ok,
               set_looping(source, should_loop, ok))

Do_is_looping ==
    /\ source # NoSource
    /\ \E ok \in BOOLEAN : Call("is_looping", 0, ok, is_looping(source, ok))

Do_play_sound ==
    /\ source # NoSource
    /\ \E ok \in BOOLEAN : Call("play_sound", 0, ok, play_sound(source, ok))

Do_set_max_distance ==
    /\ source # NoSource
    /\ \E distance \in Distances, ok \in BOOLEAN :
          Call("set_max_distance", distance, ok, set_max_distance(source, distance, ok))

Do_get_max_distance ==
    /\ source # NoSource
    /\ \E ok \in BOOLEAN : Call("get_max_distance", 0, ok, get_max_distance(source, ok))

Do_update ==
    /\ source # NoSource
    /\ \E sound_position \in Positions, ok \in BOOLEAN :
          Call("update", sound_position, ok, update(source, sound_position, ok))

Do_set_volume ==
    /\ source # NoSource
    /\ \E v \in Volumes, ok_gain, ok_max_gain \in BOOLEAN :
          Call("set_volume", v, ok_gain /\ ok_max_gain,
               set_volume(source, v, ok_gain, ok_max_gain))

Do_volume ==
    /\ source # NoSource
    /\ \E ok \in BOOLEAN : Call("volume", 0, ok, volume(source, ok))

\* Dropping the source deletes the native emitter, not the buffer.  When the
\* source was the last to keep a context whose handle is gone, the context is
\* released here.
Drop_SoundSource ==
    /\ source # NoSource
    /\ NativeRelease(LastKeeperEvents(source.context, "asset" \in KeptBy(source.context)))
    /\ source' = NoSource
    /\ ret' = [NoRet EXCEPT !.op = "Drop_SoundSource", !.res = "Ok"]
    /\ UNCHANGED <<handles, nextId, legacy, assetVars>>

\* The files the assets of SpecSource are decoded from: one mono, one stereo.
SourceFiles ==
    {[fmt |-> "wav", status |-> "ok", n_channels |-> 1, sample_rate |-> 44100,
      frames |-> <<<<2>>>>],
     [fmt |-> "wav", status |-> "ok", n_channels |-> 2, sample_rate |-> 44100,
      frames |-> <<<<0, 2>>>>]}

\* One handle is open and an asset was decoded.
InitSource ==
    /\ InitOpened
    /\ \E file \in SourceFiles :
          LET r == from_wav(1, [b \in {} |-> EmptyBuffer], file,
                            [c \in BufferCalls |-> TRUE])
          IN /\ alBuffers = r.bufs
             /\ asset = r.asset
             /\ assetSource = file
    /\ source = NoSource
    /\ ret = NoRet

NextSource ==
    \/ Do_SoundSource_new
    \/ Do_set_looping
    \/ Do_is_looping
    \/ Do_play_sound
    \/ Do_set_max_distance
    \/ Do_get_max_distance
    \/ Do_update
    \/ Do_set_volume
    \/ Do_volume
    \/ Drop_SoundSource

\* Creating, using and dropping sources of one asset, with one handle open.
SpecSource == InitSource /\ [][NextSource]_vars

----------------------------------------------------------------------------
(* Claims about sources, under SpecSource *)

\* C1 (as claimed): update on a Simple source fails with WrongSoundSourceType
\* and makes no native call: the native state of the emitter, its position
\* included, is after the call what it was before.
C1_UpdateOnSimpleIsRejected ==
    [][(ret'.op = "update" /\ ret'.kind = "Simple") =>
          /\ ret'.res = "Err" /\ ret'.err = "WrongSoundSourceType"
          /\ ret'.calls = 0
          /\ source' = source]_vars

C2_SimplePart ==
    (ret'.op \in {"set_max_distance", "get_max_distance"} /\ ret'.kind = "Simple") =>
        /\ ret'.res = "Err" /\ ret'.err = "WrongSoundSourceType"
        /\ source' = source

\* C2 (as claimed): on a Simple source set_max_distance and get_max_distance
\* fail with WrongSoundSourceType and change nothing; on a Positional source
\* set_max_distance(d) returns Ok and the get_max_distance that follows returns d.
C2_MaxDistanceRoundTrip ==
    [][/\ C2_SimplePart
       /\ (ret'.op = "set_max_distance" /\ ret'.kind = "Positional") => ret'.res = "Ok"
       /\ (/\ ret.op = "set_max_distance" /\ ret.kind = "Positional"
           /\ ret'.op = "get_max_distance")
          => (ret'.res = "Ok" /\ ret'.val = ret.arg)]_vars

\* C2 (amended): on a Simple source as claimed.  On a Positional source
\* set_max_distance(d) returns Ok and stores d exactly when the native layer
\* accepts it; get_max_distance changes nothing and returns the stored max
\* distance, or panics when the native read fails; so a get that follows an
\* accepted set(d) returns d when its native read succeeds.
C2_MaxDistanceRoundTripWhenAccepted ==
    [][/\ C2_SimplePart
       /\ (ret'.op = "set_max_distance" /\ ret'.kind = "Positional") =>
             /\ ret'.res = "Ok"
             /\ source'.max_distance =
                   IF ret'.accepted THEN ret'.arg ELSE source.max_distance
       /\ (ret'.op = "get_max_distance" /\ ret'.kind = "Positional") =>
             /\ source' = source
             /\ IF ret'.accepted
                THEN ret'.res = "Ok" /\ ret'.val = source.max_distance
                ELSE ret'.res = "Panic"
       /\ (/\ ret.op = "set_max_distance" /\ ret.kind = "Positional" /\ ret.accepted
           /\ ret'.op = "get_max_distance" /\ ret'.accepted)
          => (ret'.res = "Ok" /\ ret'.val = ret.arg)]_vars

\* get_max_distance returned 30 on a Positional source whose max distance was set
C2_Witness ==
    /\ ret.op = "get_max_distance" /\ ret.kind = "Positional"
    /\ ret.res = "Ok" /\ ret.val = 30
    /\ source.max_distance = 30

\* C3 (as claimed): a Simple source is bound to the primary buffer of the
\* asset, a Positional source to its mono buffer if it has one and to the
\* primary buffer otherwise, and never to a stereo buffer.
C3_BoundBufferByKind ==
    source # NoSource =>
        /\ source.buffer =
              IF source.source_type = "Simple" THEN asset.buffer
              ELSE IF asset.mono_buffer # 0 THEN asset.mono_buffer
              ELSE asset.buffer
        /\ source.source_type = "Positional" =>
              /\ source.buffer \in DOMAIN alBuffers
              /\ alBuffers[source.buffer].channels # "Stereo"

\* C9 (as claimed): SoundSource::new never panics, and never returns Ok with a
\* source whose buffer binding (or listener-relative marking) failed.
C9_SetupFailuresAreReturned ==
    /\ ret.op = "SoundSource_new" => ret.res # "Panic"
    /\ (ret.op = "SoundSource_new" /\ ret.res = "Ok") =>
          /\ source.buffer # 0
          /\ ret.accepted

\* C12 (as claimed): set_looping, is_looping, set_volume and the listener
\* setters return normally whatever the native layer answers: no error, no panic.
C12_SteadyStateNeverAborts ==
    ret.op \in {"set_looping", "is_looping", "set_volume", "set_listener_position",
                "set_listener_orientation", "set_listener_transform"}
        => ret.res = "Ok"

\* C13: update on a Positional source returns SettingPositionError exactly
\* when the native position call is rejected, and the position is then
\* unchanged; otherwise it returns Ok and the native position is the given one.
C13_PositionFailureIsSurfaced ==
    [][(ret'.op = "update" /\ ret'.kind = "Positional") =>
          IF ret'.accepted
          THEN /\ ret'.res = "Ok"
               /\ source'.position = ret'.arg
          ELSE /\ ret'.res = "Err" /\ ret'.err = "SettingPositionError"
               /\ source' = source]_vars

\* update([1,2,3]) succeeded on a Positional source
C13_Witness ==
    /\ ret.op = "update" /\ ret.kind = "Positional" /\ ret.res = "Ok"
    /\ ret.arg = <<1, 2, 3>> /\ source.position = <<1, 2, 3>>

----------------------------------------------------------------------------
(* Claims about decoding, under SpecDecode *)

IsDecode == ret.op \in {"from_wav", "from_mp3"}

\* The decoded source had one channel: the WAV header says so, every decoded
\* MP3 frame says so.
SingleChannel(file) ==
    IF file.fmt = "wav" THEN file.n_channels = 1
    ELSE \A i \in 1..Len(file.frames) : file.frames[i].channels = 1

\* The decoded source is stereo throughout.
AllStereo(file) ==
    IF file.fmt = "wav" THEN file.n_channels = 2
    ELSE Len(file.frames) > 0 /\ \A i \in 1..Len(file.frames) : file.frames[i].channels = 2

\* The PCM frames of a file (a decoded MP3 frame carries one).
PcmFrames(file) ==
    IF file.fmt = "wav" THEN file.frames
    ELSE [i \in 1..Len(file.frames) |-> file.frames[i].data]

\* C4: an asset a decode returned has no mono buffer if and only if the decoded
\* source was single-channel.
C4_MonoBufferIffStereo ==
    asset # NoAsset =>
        /\ (asset.mono_buffer = 0) <=> SingleChannel(assetSource)
        /\ asset.mono_buffer # 0 => asset.mono_buffer \in DOMAIN alBuffers

C4_Witness ==
    /\ ret.op = "from_mp3" /\ ret.res = "Ok"
    /\ asset # NoAsset /\ ~SingleChannel(assetSource)
    /\ asset.mono_buffer \in DOMAIN alBuffers

\* C5 (as claimed): a decode of a file whose channel count is not 1 or 2 fails
\* with TooMuchChannels and allocates no native buffer during the call.
C5_UnsupportedChannelsAllocateNothing ==
    (IsDecode /\ ret.file = "ok" /\ ret.n_channels \notin {1, 2}) =>
        /\ ret.res = "Err" /\ ret.err = "TooMuchChannels"
        /\ ret.allocs = 0

\* C6: the mono buffer of an asset decoded from a stereo source of N frames is
\* tagged Mono, has the sample rate of the primary buffer, holds N samples
\* (the primary holds 2N), and its i-th sample is channel 0 of frame i.
C6_MonoBufferIsFirstChannel ==
    (asset # NoAsset /\ AllStereo(assetSource)) =>
        /\ asset.mono_buffer \in DOMAIN alBuffers
        /\ LET mono == alBuffers[asset.mono_buffer]
               primary == alBuffers[asset.buffer]
               frames == PcmFrames(assetSource)
           IN /\ mono.channels = "Mono"
              /\ primary.channels = "Stereo"
              /\ mono.sample_rate = primary.sample_rate
              /\ Len(mono.data) = Len(frames)
              /\ Len(primary.data) = 2 * Len(frames)
              /\ \A i \in 1..Len(frames) : mono.data[i] = frames[i][1]

\* a stereo MP3 of two frames whose channels differ was decoded
C6_Witness ==
    /\ ret.op = "from_mp3" /\ ret.res = "Ok"
    /\ asset # NoAsset /\ AllStereo(assetSource)
    /\ Len(assetSource.frames) = 2
    /\ \A i \in 1..2 : assetSource.frames[i].data[1] # assetSource.frames[i].data[2]
    /\ Len(alBuffers[asset.mono_buffer].data) = 2

\* C8 (as claimed): a decode of a file that cannot be opened or parsed fails
\* with the asset-loading error, and with no other result.
C8_UnreadableFileIsLoadingError ==
    (IsDecode /\ ret.file \in {"unopenable", "unreadable", "undecodable"}) =>
        ret.res = "Err" /\ ret.err = "SoundAssetLoadingError"

\* Before the first call: nothing is open.
InitCtx ==
    /\ handles = {}
    /\ alDevices = {}
    /\ alContexts = {}
    /\ alCurrent = 0
    /\ listener = [c \in {} |-> DefaultListener]
    /\ releaseLog = <<>>
    /\ nextId = 1
    /\ legacy = LegacyStart
    /\ alBuffers = [b \in {} |-> EmptyBuffer]
    /\ asset = NoAsset
    /\ assetSource = NoFile
    /\ source = NoSource
    /\ ret = NoRet

NextCtx ==
    \/ Do_EzAl_new
    \/ \E h \in handles : Drop_EzAl(h)
    \/ \E al \in handles, p \in Positions, ok \in BOOLEAN :
          set_listener_position(al, p, ok)
    \/ \E al \in handles, o \in Orientations, ok \in BOOLEAN :
          set_listener_orientation(al, o, ok)
    \/ \E al \in handles, p \in Positions, o \in Orientations, ok1, ok2 \in BOOLEAN :
          set_listener_transform(al, p, o, ok1, ok2)

\* The life of handles: opening, listener updates, dropping.
SpecCtx == InitCtx /\ [][NextCtx]_vars

----------------------------------------------------------------------------
(* Claims about the handle, under SpecCtx *)

\* C7 (as claimed): every native device and context is released at most once,
\* and the release of the context of a handle comes before the release of
\* its device.
C7_ContextReleasedBeforeDevice ==
    /\ \A i, j \in DOMAIN releaseLog : releaseLog[i] = releaseLog[j] => i = j
    /\ \A i, j \in DOMAIN releaseLog :
          (/\ releaseLog[i].kind = "context" /\ releaseLog[j].kind = "device"
           /\ releaseLog[i].id = releaseLog[j].id) => i < j

\* C10: EzAl::new returns CurrentDeviceGettingError when no device opens, and
\* then constructs nothing; ContextCreationError when the device opens and
\* the context cannot be created, and then keeps no device, context or handle;
\* and otherwise a new handle whose context is the current one.
C10_OpenResults ==
    [][ret'.op = "EzAl_new" =>
          LET device_ok == ret'.arg[1]
              context_ok == ret'.arg[2]
          IN /\ ~device_ok =>
                   /\ ret'.res = "Err" /\ ret'.err = "CurrentDeviceGettingError"
                   /\ UNCHANGED ctxVars
             /\ (device_ok /\ ~context_ok) =>
                   /\ ret'.res = "Err" /\ ret'.err = "ContextCreationError"
                   /\ UNCHANGED <<handles, alDevices, alContexts, alCurrent>>
             /\ (device_ok /\ context_ok) =>
                   /\ ret'.res = "Ok"
                   /\ handles' = handles \cup {ret'.val} /\ ret'.val \notin handles
                   /\ ret'.val \in alDevices' /\ ret'.val \in alContexts'
                   /\ alCurrent' = ret'.val]_vars

\* a second handle was opened while the first is alive, and its context is current
C10_Witness ==
    /\ ret.op = "EzAl_new" /\ ret.res = "Ok"
    /\ Cardinality(handles) = 2
    /\ alCurrent = ret.val /\ alCurrent \in handles

----------------------------------------------------------------------------
(* Several handles, and assets and sources created through them *)

NextHandles ==
    \/ Do_EzAl_new
    \/ \E h \in handles : Drop_EzAl(h)
    \/ Load_from_wav(SourceFiles)
    \/ Drop_SoundAsset
    \/ Do_SoundSource_new
    \/ Drop_SoundSource

\* Opening and dropping handles, and creating buffers and sources through
\* any live handle.
SpecHandles == InitCtx /\ [][NextHandles]_vars

\* C11 (as claimed): the current context is the most recently opened one, and
\* buffers and sources are created in the current context only: a handle
\* whose context is not current is not usable to create them.
C11_CreationTargetsCurrentContext ==
    /\ handles # {} => (alCurrent \in handles /\ \A h \in handles : h <= alCurrent)
    /\ (ret.op \in {"from_wav", "from_mp3", "SoundSource_new"} /\ ret.res = "Ok")
          => ret.val = alCurrent

----------------------------------------------------------------------------
(* The global-context variant: static DEVICE, static CONTEXT *)

\* take_context(): CONTEXT.take().unwrap().  The context taken, the slot
\* after the take, and whether the unwrap panicked.
take_context(slot) ==
    [context |-> slot, slot |-> 0, panic |-> slot = 0]

\* return_context(context): CONTEXT = Some(context).  The slot after it.
return_context(context) == context

\* What a call of the variant did: its result and the CONTEXT slot after it.
\* A panic unwinds with the taken context dropped, the slot left empty.
LegacyResult(res, err, slot, taken) ==
    [res |-> res, err |-> err, slot |-> slot, taken |-> taken]

\* init(): the statics after it.
legacy_init(st, device_ok, context_ok) ==
    IF ~device_ok
    THEN [res |-> "Err", err |-> "CurrentDeviceGettingError", st |-> st]
    ELSE IF ~context_ok
    THEN [res |-> "Err", err |-> "ContextCreationError",
          st |-> [st EXCEPT !.opened = @ + 1]]
    ELSE [res |-> "Ok", err |-> "",
          st |-> [st EXCEPT !.opened = @ + 1, !.DEVICE = st.opened + 1,
                            !.CONTEXT = st.opened + 1,
                            !.position = DefaultListener.position,
                            !.orientation = DefaultListener.orientation]]

\* set_listener_position / set_listener_orientation: take, set, return.
legacy_set_listener(slot) ==
    LET t == take_context(slot) IN
    IF t.panic THEN LegacyResult("Panic", "", t.slot, FALSE)
    ELSE LegacyResult("Ok", "", return_context(t.context), TRUE)

\* WAV files as WavAsset::from_wav sees them: whether WavReader::open
\* succeeds, the channels and bits per sample of the header, and whether
\* every sample reads (s.unwrap()).
LegacyWavFiles ==
    [status : {"unopenable", "unreadable", "ok"}, channels : {1, 2},
     bits_per_sample : {8, 16}]

LegacyBufferCalls == {"new_buffer", "data"}
LegacyDecodeOutcomes ==
    {[c \in LegacyBufferCalls |-> c # failing] :
        failing \in LegacyBufferCalls \cup {"none"}}

\* WavAsset::from_wav(path)
legacy_from_wav(slot, file, nat) ==
    LET t == take_context(slot) IN
    IF t.panic THEN LegacyResult("Panic", "", t.slot, FALSE)
    ELSE IF file.status = "unopenable"
    THEN LegacyResult("Err", "SoundAssetLoadingError", return_context(t.context), TRUE)
    ELSE IF file.channels > 1
    THEN LegacyResult("Err", "NotMonoWavFileError", return_context(t.context), TRUE)
    ELSE IF file.bits_per_sample # 16
    THEN LegacyResult("Err", "Not16BitWavFileError", return_context(t.context), TRUE)
    ELSE IF file.status = "unreadable"
    THEN \* .map(|s| s.unwrap())
         LegacyResult("Panic", "", t.slot, TRUE)
    ELSE IF ~nat["new_buffer"]
    THEN LegacyResult("Err", "BufferCreationFailedError", return_context(t.context), TRUE)
    ELSE IF ~nat["data"]
    THEN LegacyResult("Err", "BufferCreationFailedError", return_context(t.context), TRUE)
    ELSE LegacyResult("Ok", "", return_context(t.context), TRUE)

\* context.new_source(): a native emitter with OpenAL's defaults.  Of the
\* emitter's native state the model keeps what a method of the variant's
\* SoundSource reads or writes after new: position, max distance, looping.
LegacyNewSource(emitter_type) ==
    [emitter_type |-> emitter_type, position |-> <<0, 0, 0>>,
     max_distance |-> 1000000, looping |-> FALSE]

\* SoundSource::new(asset, emitter_type) of the variant: the result, the
\* CONTEXT slot after it, and the source made.  The results of set_buffer and
\* of the three setters of a Positional source are discarded.
legacy_SoundSource_new(slot, emitter_type, new_source_ok, set_relative_ok) ==
    LET t == take_context(slot)
        with(r, src) == [res |-> r.res, err |-> r.err, slot |-> r.slot,
                         taken |-> r.taken, source |-> src]
    IN
    IF t.panic THEN with(LegacyResult("Panic", "", t.slot, FALSE), NoLegacySource)
    ELSE IF ~new_source_ok
    THEN with(LegacyResult("Err", "SourceCreationFailedError",
                           return_context(t.context), TRUE), NoLegacySource)
    ELSE IF emitter_type = "Simple" /\ ~set_relative_ok
    THEN \* source.set_relative(true).unwrap()
         with(LegacyResult("Panic", "", t.slot, TRUE), NoLegacySource)
    ELSE with(LegacyResult("Ok", "", return_context(t.context), TRUE),
              LegacyNewSource(emitter_type))

\* The distance the callers of the variant set.
LegacyDistances == {30}

\* The methods of the variant's SoundSource: the result and the source after.
legacy_set_looping(src, should_loop, ok) ==
    [res |-> "Ok", err |-> "", val |-> 0,
     source |-> IF ok THEN [src EXCEPT !.looping = should_loop] ELSE src]

\* self.source.is_looping().unwrap()
legacy_is_looping(src, ok) ==
    IF ok THEN [res |-> "Ok", err |-> "", val |-> IF src.looping THEN 1 ELSE 0,
                source |-> src]
    ELSE [res |-> "Panic", err |-> "", val |-> 0, source |-> src]

\* let _ = self.source.play()
legacy_play_sound(src, ok) ==
    [res |-> "Ok", err |-> "", val |-> 0, source |-> src]

legacy_set_max_distance(src, distance, ok) ==
    IF src.emitter_type = "Simple"
    THEN [res |-> "Err", err |-> "WrongEmitterType", val |-> 0, source |-> src]
    ELSE [res |-> "Ok", err |-> "", val |-> 0,
          source |-> IF ok THEN [src EXCEPT !.max_distance = distance] ELSE src]

\* Ok(self.source.max_distance().unwrap())
legacy_get_max_distance(src, ok) ==
    IF src.emitter_type = "Simple"
    THEN [res |-> "Err", err |-> "WrongEmitterType", val |-> 0, source |-> src]
    ELSE IF ok THEN [res |-> "Ok", err |-> "", val |-> src.max_distance, source |-> src]
    ELSE [res |-> "Panic", err |-> "", val |-> 0, source |-> src]

\* update(sound_position): there is no match on emitter_type.
legacy_update(src, sound_position, ok) ==
    IF ok THEN [res |-> "Ok", err |-> "", val |-> 0,
                source |-> [src EXCEPT !.position = sound_position]]
    ELSE [res |-> "Err", err |-> "SettingPositionError", val |-> 0, source |-> src]

\* The main-crate state, which the calls of the variant leave alone.
LegacyFrame ==
    UNCHANGED <<handles, alDevices, alContexts, alCurrent, listener, releaseLog,
                nextId, assetVars, source>>

\* The statics after a call that left slot in CONTEXT: a context that was
\* taken and not put back (a panic) is dropped with its listener.
AfterCall(st, r) ==
    IF r.slot = 0
    THEN [st EXCEPT !.CONTEXT = 0, !.aborted = (r.res = "Panic"),
                    !.position = DefaultListener.position,
                    !.orientation = DefaultListener.orientation]
    ELSE [st EXCEPT !.CONTEXT = r.slot, !.aborted = (r.res = "Panic")]

\* A call of the variant that takes the context: the statics and ret after it.
LegacyCall(op, arg, r) ==
    /\ legacy' = AfterCall(legacy, r)
    /\ ret' = [NoRet EXCEPT !.op = op, !.res = r.res, !.err = r.err, !.arg = arg,
                  !.accepted = r.taken]
    /\ LegacyFrame

\* A call of a method of the held SoundSource of the variant.
LegacySourceCall(op, r) ==
    /\ legacy' = [legacy EXCEPT !.source = r.source, !.aborted = (r.res = "Panic")]
    /\ ret' = [NoRet EXCEPT !.op = op, !.res = r.res, !.err = r.err, !.val = r.val,
                  !.kind = legacy.source.emitter_type]
    /\ LegacyFrame

Do_legacy_init ==
    /\ ~legacy.aborted
    /\ legacy.opened < MaxInits
    /\ \E device_ok, context_ok \in BOOLEAN :
          LET r == legacy_init(legacy, device_ok, context_ok) IN
          /\ legacy' = r.st
          /\ ret' = [NoRet EXCEPT !.op = "legacy_init", !.res = r.res, !.err = r.err,
                        !.arg = <<device_ok, context_ok>>]
    /\ LegacyFrame

\* The caller calls the pub fn take_context() and keeps the context, with
\* its listener; on an empty slot the unwrap panics.
Do_take_context ==
    /\ ~legacy.aborted
    /\ LET t == take_context(legacy.CONTEXT) IN
          /\ legacy' =
                IF t.panic THEN [legacy EXCEPT !.aborted = TRUE]
                ELSE [legacy EXCEPT
                         !.CONTEXT = t.slot,
                         !.held = [c \in DOMAIN legacy.held \cup {t.context} |->
                                      IF c = t.context
                                      THEN [position |-> legacy.position,
                                            orientation |-> legacy.orientation]
                                      ELSE legacy.held[c]],
                         !.position = DefaultListener.position,
                         !.orientation = DefaultListener.orientation]
          /\ ret' = [NoRet EXCEPT !.op = "take_context",
                        !.res = IF t.panic THEN "Panic" ELSE "Ok",
                        !.val = t.context]
    /\ LegacyFrame

\* The caller gives a context it took to the pub fn return_context():
\* CONTEXT = Some(context) drops the context that was in the slot (ret.val)
\* and the slot has the listener of the context put back.
Do_return_context ==
    /\ ~legacy.aborted
    /\ \E context \in DOMAIN legacy.held :
          /\ legacy' = [legacy EXCEPT
                           !.CONTEXT = return_context(context),
                           !.position = legacy.held[context].position,
                           !.orientation = legacy.held[context].orientation,
                           !.held = [c \in DOMAIN legacy.held \ {context} |->
                                        legacy.held[c]]]
          /\ ret' = [NoRet EXCEPT !.op = "return_context", !.res = "Ok",
                        !.arg = context, !.val = legacy.CONTEXT]
    /\ LegacyFrame

\* The caller drops a context it took.
Drop_held_context ==
    /\ ~legacy.aborted
    /\ \E context \in DOMAIN legacy.held :
          /\ legacy' = [legacy EXCEPT
                           !.held = [c \in DOMAIN legacy.held \ {context} |->
                                        legacy.held[c]]]
          /\ ret' = [NoRet EXCEPT !.op = "Drop_held_context", !.res = "Ok",
                        !.arg = context]
    /\ LegacyFrame

Do_legacy_set_listener_position ==
    /\ ~legacy.aborted
    /\ \E position \in Positions, ok \in BOOLEAN :
          LET r == legacy_set_listener(legacy.CONTEXT) IN
          /\ legacy' = [AfterCall(legacy, r) EXCEPT
                           !.position = IF r.res = "Ok" /\ ok THEN position ELSE @]
          /\ ret' = [NoRet EXCEPT !.op = "legacy_set_listener_position",
                        !.res = r.res, !.arg = position, !.accepted = r.taken]
    /\ LegacyFrame

Do_legacy_set_listener_orientation ==
    /\ ~legacy.aborted
    /\ \E orientation \in Orientations, ok \in BOOLEAN :
          LET r == legacy_set_listener(legacy.CONTEXT) IN
          /\ legacy' = [AfterCall(legacy, r) EXCEPT
                           !.orientation = IF r.res = "Ok" /\ ok THEN orientation ELSE @]
          /\ ret' = [NoRet EXCEPT !.op = "legacy_set_listener_orientation",
                        !.res = r.res, !.arg = orientation, !.accepted = r.taken]
    /\ LegacyFrame

\* set_listener_transform: set_listener_position, then set_listener_orientation.
Do_legacy_set_listener_transform ==
    /\ ~legacy.aborted
    /\ \E position \in Positions, orientation \in Orientations, ok1, ok2 \in BOOLEAN :
          LET r1 == legacy_set_listener(legacy.CONTEXT)
              r2 == IF r1.res = "Ok" THEN legacy_set_listener(r1.slot) ELSE r1
          IN
          /\ legacy' = [AfterCall(legacy, r2) EXCEPT
                           !.position = IF r1.res = "Ok" /\ ok1 THEN position ELSE @,
                           !.orientation = IF r2.res = "Ok" /\ ok2 THEN orientation ELSE @]
          /\ ret' = [NoRet EXCEPT !.op = "legacy_set_listener_transform",
                        !.res = r2.res, !.arg = <<position, orientation>>,
                        !.accepted = r2.taken]
    /\ LegacyFrame

\* let asset = WavAsset::from_wav(path): the caller keeps an Ok asset.
Do_legacy_from_wav ==
    /\ ~legacy.aborted
    /\ ~legacy.asset
    /\ \E file \in LegacyWavFiles, nat \in LegacyDecodeOutcomes :
          LET r == legacy_from_wav(legacy.CONTEXT, file, nat) IN
          /\ legacy' = [AfterCall(legacy, r) EXCEPT !.asset = (r.res = "Ok")]
          /\ ret' = [NoRet EXCEPT !.op = "legacy_from_wav", !.res = r.res,
                        !.err = r.err, !.accepted = r.taken]
    /\ LegacyFrame

\* let source = SoundSource::new(&asset, emitter_type)
Do_legacy_SoundSource_new ==
    /\ ~legacy.aborted
    /\ legacy.asset
    /\ legacy.source = NoLegacySource
    /\ \E emitter_type \in SoundSourceType, new_source_ok, set_relative_ok \in BOOLEAN :
          LET r == legacy_SoundSource_new(legacy.CONTEXT, emitter_type,
                                          new_source_ok, set_relative_ok) IN
          /\ legacy' = [AfterCall(legacy, r) EXCEPT !.source = r.source]
          /\ ret' = [NoRet EXCEPT !.op = "legacy_SoundSource_new", !.res = r.res,
                        !.err = r.err, !.kind = emitter_type, !.accepted = r.taken]
    /\ LegacyFrame

Do_legacy_set_looping ==
    /\ ~legacy.aborted /\ legacy.source # NoLegacySource
    /\ \E should_loop, ok \in BOOLEAN :
          LegacySourceCall("legacy_set_looping",
                           legacy_set_looping(legacy.source, should_loop, ok))

Do_legacy_is_looping ==
    /\ ~legacy.aborted /\ legacy.source # NoLegacySource
    /\ \E ok \in BOOLEAN :
          LegacySourceCall("legacy_is_looping",
                           legacy_is_looping(legacy.source, ok))

Do_legacy_play_sound ==
    /\ ~legacy.aborted /\ legacy.source # NoLegacySource
    /\ \E ok \in BOOLEAN :
          LegacySourceCall("legacy_play_sound",
                           legacy_play_sound(legacy.source, ok))

Do_legacy_set_max_distance ==
    /\ ~legacy.aborted /\ legacy.source # NoLegacySource
    /\ \E distance \in LegacyDistances, ok \in BOOLEAN :
          LegacySourceCall("legacy_set_max_distance",
                           legacy_set_max_distance(legacy.source, distance, ok))

Do_legacy_get_max_distance ==
    /\ ~legacy.aborted /\ legacy.source # NoLegacySource
    /\ \E ok \in BOOLEAN :
          LegacySourceCall("legacy_get_max_distance",
                           legacy_get_max_distance(legacy.source, ok))

Do_legacy_update ==
    /\ ~legacy.aborted /\ legacy.source # NoLegacySource
    /\ \E sound_position \in Positions, ok \in BOOLEAN :
          LegacySourceCall("legacy_update",
                           legacy_update(legacy.source, sound_position, ok))

\* Dropping the WavAsset or the SoundSource of the variant.
Drop_legacy_asset ==
    /\ ~legacy.aborted /\ legacy.asset
    /\ legacy' = [legacy EXCEPT !.asset = FALSE]
    /\ ret' = [NoRet EXCEPT !.op = "Drop_legacy_asset", !.res = "Ok"]
    /\ LegacyFrame

Drop_legacy_source ==
    /\ ~legacy.aborted /\ legacy.source # NoLegacySource
    /\ legacy' = [legacy EXCEPT !.source = NoLegacySource]
    /\ ret' = [NoRet EXCEPT !.op = "Drop_legacy_source", !.res = "Ok"]
    /\ LegacyFrame

NextLegacy ==
    \/ Do_legacy_init
    \/ Do_take_context
    \/ Do_return_context
    \/ Drop_held_context
    \/ Do_legacy_set_listener_position
    \/ Do_legacy_set_listener_orientation
    \/ Do_legacy_set_listener_transform
    \/ Do_legacy_from_wav
    \/ Do_legacy_SoundSource_new
    \/ Do_legacy_set_looping
    \/ Do_legacy_is_looping
    \/ Do_legacy_play_sound
    \/ Do_legacy_set_max_distance
    \/ Do_legacy_get_max_distance
    \/ Do_legacy_update
    \/ Drop_legacy_asset
    \/ Drop_legacy_source

\* The calls of the global-context variant, from before init().
SpecLegacy == InitCtx /\ [][NextLegacy]_vars

\* The operations of the variant that take the process-wide context.
LegacyOps ==
    {"legacy_set_listener_position", "legacy_set_listener_orientation",
     "legacy_set_listener_transform", "legacy_from_wav", "legacy_SoundSource_new"}

\* C15 (as claimed): once init() has stored a context, every call of init,
\* set_listener_position, set_listener_orientation, set_listener_transform,
\* WavAsset::from_wav or SoundSource::new made with the CONTEXT slot occupied
\* leaves the slot occupied, whatever the outcome of the call, so the
\* take_context() of the next call finds a context.
C15_ContextStaysInSlot ==
    [][(ret'.op \in LegacyOps \cup {"legacy_init"} /\ legacy.CONTEXT # 0)
          => legacy'.CONTEXT # 0]_vars

====
